---------------------------- MODULE Spec2Model ----------------------------
(***************************************************************************)
(* A model of fastsnbt's literal parser (src/fastsnbt/src/parser.rs) and   *)
(* of its serializer (src/fastsnbt/src/ser/mod.rs).                        *)
(*                                                                         *)
(* Text is a sequence of bytes; an ASCII byte is written as the one        *)
(* character string holding it, and the two bytes of the UTF-8 encoding of *)
(* U+00E9 are written "C3" and "A9", so that byte offsets and characters   *)
(* differ as they do in the code.                                          *)
(***************************************************************************)
EXTENDS Integers, Sequences, FiniteSets, TLC

VARIABLES
    ser,     \* the two Serializer<W> (pretty, compact) with their open composites
    opened,  \* history: per mode, the indent at which each open composite was created
    last,    \* history: the last operation, the state it started from, what it wrote
    hist,    \* history: the outputs read back call by call, and what was supplied
    nops,    \* number of serializer operations performed so far
    pc,      \* position of a parser / pure-function run
    arg,     \* the input a pure-function run was started with
    text,    \* the text handed to the parser
    res      \* what the parser returned

vars == <<ser, opened, last, hist, nops, pc, arg, text, res>>

---------------------------------------------------------------------------
(* Bounds of the model *)

MaxOps == 6
MaxDepth == 3
MaxBytes == 3
MaxStr == 4
MaxIntText == 4

---------------------------------------------------------------------------
(* Bytes and characters *)

BS == "\\"
DQ == "\""
SQ == "'"
NL == "\n"
SP == " "

Digits == <<"0", "1", "2", "3", "4", "5", "6", "7", "8", "9">>
DigitSet == {Digits[i] : i \in 1..10}
DigitVal(c) == CHOOSE d \in 0..9 : Digits[d + 1] = c

MaxOf(S) == CHOOSE x \in S : \A y \in S : y <= x
MinOf(S) == CHOOSE x \in S : \A y \in S : x <= y

\* the number of backslashes that stand in a row right before position i
BsRun(s, i) == (i - 1) - MaxOf({j \in 0..(i - 1) : j = 0 \/ s[j] # BS})
RECURSIVE Concat(_)
Concat(ss) == IF ss = <<>> THEN <<>> ELSE Head(ss) \o Concat(Tail(ss))

RECURSIVE Repeat(_, _)
Repeat(s, n) == IF n <= 0 THEN <<>> ELSE s \o Repeat(s, n - 1)

\* &s[from..to] with 0-based byte offsets, as in Rust
Slice(s, from, to) == SubSeq(s, from + 1, to)

RECURSIVE SeqsUpTo(_, _)
SeqsUpTo(S, n) ==
    IF n = 0 THEN {<<>>}
    ELSE LET shorter == SeqsUpTo(S, n - 1)
         IN  shorter \cup {Append(s, x) : s \in {t \in shorter : Len(t) = n - 1}, x \in S}

---------------------------------------------------------------------------
(* Integers of up to 64 bits: a sign and a magnitude of four 16-bit limbs, *)
(* most significant first (TLC's own integers have 32 bits).               *)

LimbBase == 256 * 256

ZeroMag == <<0, 0, 0, 0>>
FromInt(n) ==
    [neg |-> n < 0,
     mag |-> LET a == IF n < 0 THEN 0 - n ELSE n
             IN  <<0, 0, a \div LimbBase, a % LimbBase>>]

\* magnitude \div 10 and magnitude % 10, by long division over the limbs
RECURSIVE MagDivMod10(_, _, _)
MagDivMod10(mag, i, st) ==
    IF i > Len(mag) THEN st
    ELSE LET cur == st.r * LimbBase + mag[i]
         IN  MagDivMod10(mag, i + 1, [q |-> Append(st.q, cur \div 10), r |-> cur % 10])

\* magnitude * 10 + d, with the carry out of the top limb
RECURSIVE MagMul10Add(_, _, _)
MagMul10Add(mag, i, st) ==
    IF i = 0 THEN st
    ELSE LET cur == mag[i] * 10 + st.c
         IN  MagMul10Add(mag, i - 1, [m |-> <<cur % LimbBase>> \o st.m, c |-> cur \div LimbBase])

RECURSIVE MagLeqFrom(_, _, _)
MagLeqFrom(a, b, i) ==
    IF i > Len(a) THEN TRUE
    ELSE IF a[i] < b[i] THEN TRUE
    ELSE IF a[i] > b[i] THEN FALSE
    ELSE MagLeqFrom(a, b, i + 1)
MagLeq(a, b) == MagLeqFrom(a, b, 1)

\* 2^(w-1) as a magnitude: the magnitude of iw::MIN
MinMag(w) ==
    CASE w = 8  -> <<0, 0, 0, 128>>
      [] w = 16 -> <<0, 0, 0, 32768>>
      [] w = 32 -> <<0, 0, 32768, 0>>
      [] w = 64 -> <<32768, 0, 0, 0>>
\* 2^(w-1) - 1 as a magnitude: iw::MAX
MaxMag(w) ==
    CASE w = 8  -> <<0, 0, 0, 127>>
      [] w = 16 -> <<0, 0, 0, 32767>>
      [] w = 32 -> <<0, 0, 32767, 65535>>
      [] w = 64 -> <<32767, 65535, 65535, 65535>>

InRange(w, x) ==
    /\ x.neg => (x.mag # ZeroMag /\ MagLeq(x.mag, MinMag(w)))
    /\ ~x.neg => MagLeq(x.mag, MaxMag(w))


\* itoa::Buffer::format: the decimal digits of the magnitude, after "-" when negative
RECURSIVE MagDigits(_)
MagDigits(mag) ==
    IF mag = ZeroMag THEN <<>>
    ELSE LET dm == MagDivMod10(mag, 1, [q |-> <<>>, r |-> 0])
         IN  Append(MagDigits(dm.q), Digits[dm.r + 1])

Itoa(x) ==
    (IF x.neg THEN <<"-">> ELSE <<>>)
        \o (IF x.mag = ZeroMag THEN <<"0">> ELSE MagDigits(x.mag))

IntSuffix(w) ==
    CASE w = 8  -> <<"b">>
      [] w = 16 -> <<"s">>
      [] w = 32 -> <<>>
      [] w = 64 -> <<"l">>

---------------------------------------------------------------------------
(* Serializer<W>: the sink, the indentation, and the composites in progress *)

None == [some |-> FALSE, val |-> 0]
Some(n) == [some |-> TRUE, val |-> n]
NoKey == [some |-> FALSE, val |-> <<>>]
SomeKey(name) == [some |-> TRUE, val |-> name]

Modes == {"pretty", "compact"}

\* no parser has run
NoRes == [ok |-> FALSE, rest |-> <<>>, val |-> <<>>, owned |-> FALSE, err |-> "none"]

\* `floored` is history: whether pop_indent ever ran on a depth of 0
NewSerializer(m) ==
    [writer |-> <<>>,
     indent |-> IF m = "pretty" THEN Some(0) ELSE None,
     stack  |-> <<>>,
     result |-> "ok",
     floored |-> FALSE]

Ok(s) == [s EXCEPT !.result = "ok"]
Err(s, msg) == [s EXCEPT !.result = msg]

WriteAll(s, bytes) == [s EXCEPT !.writer = @ \o bytes]

IndentUnit == <<SP, SP, SP, SP>>

\* a newline written whether or not pretty printing is on
newline_unconditional(s) ==
    WriteAll(s, <<NL>> \o Repeat(IndentUnit, s.indent.val))

newline(s) ==
    IF s.indent.some
    THEN WriteAll(s, <<NL>> \o Repeat(IndentUnit, s.indent.val))
    ELSE s

\* an indentation that is never entered
push_indent_skipped(s) == s

push_indent(s) ==
    IF s.indent.some THEN [s EXCEPT !.indent = Some(@.val + 1)] ELSE s

pop_indent(s) ==
    IF s.indent.some
    THEN [s EXCEPT !.indent = Some(IF @.val = 0 THEN 0 ELSE @.val - 1),
                   !.floored = @ \/ s.indent.val = 0]
    ELSE s

Top(s) == s.stack[Len(s.stack)]
SetTop(s, f) == [s EXCEPT !.stack[Len(s.stack)] = f]
Pop(s) == [s EXCEPT !.stack = SubSeq(@, 1, Len(@) - 1)]

ArrayFrame(prefix) ==
    [kind |-> "array", first |-> FALSE, prefix |-> prefix,
     is_compound |-> FALSE, has_first |-> FALSE, key |-> NoKey]
CompoundFrame ==
    [kind |-> "compound", first |-> FALSE, prefix |-> <<>>,
     is_compound |-> FALSE, has_first |-> FALSE, key |-> NoKey]

\* write_escaped_str: only the bytes `"` and `\` are escaped
RECURSIVE EscapeFrom(_, _, _, _)
EscapeFrom(w, v, i, start) ==
    IF i >= Len(v)
    THEN IF start # Len(v) THEN w \o Slice(v, start, Len(v)) ELSE w
    ELSE LET byte == v[i + 1]
         IN  IF byte # DQ /\ byte # BS
             THEN EscapeFrom(w, v, i + 1, start)
             ELSE LET w1 == IF start < i THEN w \o Slice(v, start, i) ELSE w
                      w2 == IF byte = DQ THEN w1 \o <<BS, DQ>> ELSE w1 \o <<BS, BS>>
                  IN  EscapeFrom(w2, v, i + 1, i + 1)

\* the string between quotes with nothing escaped
write_unescaped_str(v) == <<DQ>> \o v \o <<DQ>>

write_escaped_str(v) == EscapeFrom(<<DQ>>, v, 0, 0) \o <<DQ>>

serialize_bool(s, b) ==
    Ok(WriteAll(s, IF b THEN <<"t", "r", "u", "e">> ELSE <<"f", "a", "l", "s", "e">>))
serialize_int(s, w, x) == Ok(WriteAll(WriteAll(s, Itoa(x)), IntSuffix(w)))
serialize_u8(s, b) == Ok(WriteAll(WriteAll(s, Itoa(FromInt(b))), <<"b">>))
serialize_str(s, v) == Ok(WriteAll(s, write_escaped_str(v)))

ArraySerializer_new(prefix, s) == Ok([s EXCEPT !.stack = Append(@, ArrayFrame(prefix))])
CompoundSerializer_new(s) == Ok([s EXCEPT !.stack = Append(@, CompoundFrame)])

\* ArraySerializer::serialize_element up to, not including, value.serialize
element_begin(s) ==
    LET f == Top(s)
        s1 == IF ~f.first
              THEN WriteAll(newline(push_indent(WriteAll(SetTop(s, [f EXCEPT !.first = TRUE]),
                                                         <<"[">>))),
                            f.prefix)
              ELSE WriteAll(s, <<",">>)
    IN  newline(s1)

\* ArraySerializer::end
array_end(s) ==
    LET f == Top(s)
        s1 == IF f.first
              THEN newline(pop_indent(s))
              ELSE WriteAll(WriteAll(s, <<"[">>), f.prefix)
    IN  Ok(Pop(WriteAll(s1, <<"]">>)))

RECURSIVE bytes_elements(_, _)
bytes_elements(s, v) ==
    IF v = <<>> THEN s
    ELSE bytes_elements(serialize_u8(element_begin(s), Head(v)), Tail(v))

serialize_bytes(s, v) == array_end(bytes_elements(ArraySerializer_new(<<>>, s), v))


---------------------------------------------------------------------------
(* Values handed to the serializer: what the value's Serialize impl calls *)

VBool(b)   == [t |-> "bool",  b |-> b,     w |-> 0, x |-> FromInt(0), s |-> <<>>, bs |-> <<>>]
VInt(w, n) == [t |-> "int",   b |-> FALSE, w |-> w, x |-> FromInt(n), s |-> <<>>, bs |-> <<>>]
VStr(s)    == [t |-> "str",   b |-> FALSE, w |-> 0, x |-> FromInt(0), s |-> s,    bs |-> <<>>]
VBytes(bs) == [t |-> "bytes", b |-> FALSE, w |-> 0, x |-> FromInt(0), s |-> <<>>, bs |-> bs]
VSeq       == [t |-> "seq",   b |-> FALSE, w |-> 0, x |-> FromInt(0), s |-> <<>>, bs |-> <<>>]
VMap       == [t |-> "map",   b |-> FALSE, w |-> 0, x |-> FromInt(0), s |-> <<>>, bs |-> <<>>]

\* value.serialize(&mut *serializer): the Serializer method the value calls
Serialize(s, v) ==
    CASE v.t = "bool"  -> serialize_bool(s, v.b)
      [] v.t = "int"   -> serialize_int(s, v.w, v.x)
      [] v.t = "str"   -> serialize_str(s, v.s)
      [] v.t = "bytes" -> serialize_bytes(s, v.bs)
      [] v.t = "seq"   -> ArraySerializer_new(<<>>, s)
      [] v.t = "map"   -> CompoundSerializer_new(s)

---------------------------------------------------------------------------
(* CompoundSerializer *)

BYTE_ARRAY_TOKEN_STR == <<"__fastnbt_byte_array">>
INT_ARRAY_TOKEN_STR  == <<"__fastnbt_int_array">>
LONG_ARRAY_TOKEN_STR == <<"__fastnbt_long_array">>

\* what key.serialize(&mut NameSerializer { name: &mut name }) can answer: the
\* bytes left in `name`, or an error
KeyOk(name) == [ok |-> TRUE, name |-> name]
KeyErr == [ok |-> FALSE, name |-> <<>>]

\* CompoundSerializer::serialize_key, given what the key's serialization answered
serialize_key(s, key) ==
    IF key.ok
    THEN Ok(SetTop(s, [Top(s) EXCEPT !.key = SomeKey(key.name)]))
    ELSE Err(s, "key")

\* two's complement negation of a big-endian byte string
RECURSIVE AddOneAt(_, _)
AddOneAt(bytes, i) ==
    IF i = 0 THEN bytes
    ELSE IF bytes[i] = 255 THEN AddOneAt([bytes EXCEPT ![i] = 0], i - 1)
    ELSE [bytes EXCEPT ![i] = @ + 1]
TwosNegate(bytes) == AddOneAt([i \in 1..Len(bytes) |-> 255 - bytes[i]], Len(bytes))

\* iN::from_be_bytes of a chunk of 1, 4 or 8 bytes
FromBeBytes(chunk) ==
    LET neg == chunk[1] >= 128
        m   == IF neg THEN TwosNegate(chunk) ELSE chunk
        b   == [i \in 1..(8 - Len(m)) |-> 0] \o m
    IN  [neg |-> neg, mag |-> [i \in 1..4 |-> b[2 * i - 1] * 256 + b[2 * i]]]

RECURSIVE typed_elements(_, _, _)
typed_elements(s, stride, v) ==
    IF v = <<>> THEN s
    ELSE typed_elements(
            serialize_int(element_begin(s), 8 * stride, FromBeBytes(SubSeq(v, 1, stride))),
            stride, SubSeq(v, stride + 1, Len(v)))

\* array_serializer::ArraySerializer: a byte blob, cut into elements of
\* `stride` bytes, goes through the sequence emitter with the prefix
typed_array(s, stride, prefix, v) ==
    IF v.t = "bytes" /\ Len(v.bs) % stride = 0
    THEN array_end(typed_elements(ArraySerializer_new(prefix, s), stride, v.bs))
    ELSE Err(s, "expected bytes")

\* a missing key answered with success instead of the error
value_no_key_ignored(s) == [s |-> Ok(s), arm |-> "error"]

\* self.key.take().ok_or_else(..)? on an empty key: the call returns the error
value_no_key(s) ==
    [s |-> Err(s, "serialize_value called before serialize_key"), arm |-> "error"]

\* CompoundSerializer::serialize_value up to, not including, value.serialize:
\* the state, and the arm of the match that serializes the value
value_begin(s) ==
    LET f == Top(s) IN
    IF ~f.key.some
    THEN value_no_key(s)
    ELSE
      LET name == f.key.val
          f1 == [f EXCEPT !.key = NoKey]
          s1 == IF ~f1.has_first
                THEN SetTop(s, [f1 EXCEPT !.has_first = TRUE])
                ELSE newline(WriteAll(SetTop(s, f1), <<",">>))
      IN  CASE name = BYTE_ARRAY_TOKEN_STR -> [s |-> s1, arm |-> "B;"]
            [] name = INT_ARRAY_TOKEN_STR  -> [s |-> s1, arm |-> "I;"]
            [] name = LONG_ARRAY_TOKEN_STR -> [s |-> s1, arm |-> "L;"]
            [] OTHER ->
                LET g  == Top(s1)
                    s2 == IF ~g.is_compound
                          THEN newline(push_indent(WriteAll(
                                   SetTop(s1, [g EXCEPT !.is_compound = TRUE]), <<"{">>)))
                          ELSE s1
                    sep == IF s2.indent.some THEN <<":", SP>> ELSE <<":">>
                IN  [s |-> WriteAll(WriteAll(s2, name), sep), arm |-> "field"]

value_serialize(b, v) ==
    CASE b.arm = "error" -> b.s
      [] b.arm = "B;"    -> typed_array(b.s, 1, <<"B", ";">>, v)
      [] b.arm = "I;"    -> typed_array(b.s, 4, <<"I", ";">>, v)
      [] b.arm = "L;"    -> typed_array(b.s, 8, <<"L", ";">>, v)
      [] b.arm = "field" -> Serialize(b.s, v)

serialize_value(s, v) == value_serialize(value_begin(s), v)

\* CompoundSerializer::end
compound_end(s) ==
    LET f == Top(s)
        s1 == IF f.is_compound
              THEN WriteAll(newline(pop_indent(s)), <<"}">>)
              ELSE IF ~f.has_first THEN WriteAll(s, <<"{", "}">>)
              ELSE s
    IN  Ok(Pop(s1))


---------------------------------------------------------------------------
(* Reading an output back: what the emitter inserted, and what was supplied *)

\* the quotes that open or close a string literal: those not escaped
Quotes(s) == {i \in 1..Len(s) : s[i] = DQ /\ BsRun(s, i) % 2 = 0}
\* the positions outside string literals
Outside(s) ==
    LET q == Quotes(s)
    IN  {i \in 1..Len(s) : i \notin q /\ Cardinality({j \in q : j < i}) % 2 = 0}

\* s without the bytes of `drop` that stand outside string literals
Without(s, drop) ==
    LET out == Outside(s)
        Keep(i) == ~(s[i] \in drop /\ i \in out)
        kept == SelectSeq([i \in 1..Len(s) |-> i], Keep)
    IN  [j \in 1..Len(kept) |-> s[kept[j]]]

\* the output without the newlines and spaces that stand outside string literals
StripInserted(s) == Without(s, {NL, SP})
\* the output without whitespace, delimiters and separators outside string literals
Content(s) == Without(s, {NL, SP, "[", "]", "{", "}", ",", ":"})
\* every run of spaces outside string literals is one space after `:` or
\* whole 4-space units after a newline
InsertedShapeOk(s) ==
    LET out == Outside(s)
    IN  \A i \in out :
            (s[i] = SP /\ (i = 1 \/ s[i - 1] # SP)) =>
                LET n == MinOf({j \in (i + 1)..(Len(s) + 1) : j = Len(s) + 1 \/ s[j] # SP}) - i
                IN  /\ i > 1
                    /\ \/ s[i - 1] = ":" /\ n = 1
                       \/ s[i - 1] = NL /\ n % 4 = 0

Delta(a, b) == SubSeq(b.writer, Len(a.writer) + 1, Len(b.writer))

---------------------------------------------------------------------------
(* The serializer as a state machine: one action per call of the serde API *)

Values ==
    {VBool(TRUE), VInt(64, 0 - 12),
     VStr(<<"a", SP, DQ>>), VBytes(<<1, 2>>), VSeq, VMap}
Keys == {KeyOk(<<"a">>), KeyOk(<<"b">>), KeyOk(BYTE_ARRAY_TOKEN_STR), KeyErr}

Opens(v) == v.t \in {"seq", "map"}
Depth == Len(ser["compact"].stack)
TopKind == IF Depth = 0 THEN "root" ELSE Top(ser["compact"]).kind
MayTake(v) == Opens(v) => Depth < MaxDepth

SerInit ==
    /\ ser = [m \in Modes |-> NewSerializer(m)]
    /\ opened = [m \in Modes |-> <<>>]
    /\ last = [op |-> "new", before |-> [m \in Modes |-> NewSerializer(m)],
               opened |-> [m \in Modes |-> <<>>], pre |-> [m \in Modes |-> <<>>],
               at |-> [m \in Modes |-> NewSerializer(m).indent]]
    /\ hist = [stripped |-> <<>>, content |-> <<>>, supplied |-> <<>>, typed |-> FALSE]
    /\ nops = 0
    /\ pc = "serializer"
    /\ arg = <<>>
    /\ text = <<>>
    /\ res = NoRes

\* bookkeeping common to the calls: `pre` is the state when value.serialize is
\* entered (or the final state for a call that serializes no value), `name` the
\* key the call wrote, `typed` whether the value went to a typed-array emitter
Called(op, pre, post, name, typed) ==
    /\ ser' = post
    /\ last' = [op |-> op, before |-> ser, opened |-> opened,
                pre |-> [m \in Modes |-> Delta(ser[m], pre[m])],
                at |-> [m \in Modes |-> pre[m].indent]]
    /\ opened' = [m \in Modes |->
                    IF Len(post[m].stack) > Len(ser[m].stack)
                    THEN Append(opened[m], post[m].indent)
                    ELSE IF Len(post[m].stack) < Len(ser[m].stack)
                    THEN SubSeq(opened[m], 1, Len(opened[m]) - 1)
                    ELSE opened[m]]
    /\ hist' = [stripped |-> hist.stripped \o StripInserted(Delta(ser["pretty"], post["pretty"])),
                content  |-> hist.content \o Content(Delta(ser["compact"], post["compact"])),
                supplied |-> hist.supplied \o name
                                \o Content(Delta(pre["compact"], post["compact"])),
                typed    |-> hist.typed \/ typed]
    /\ nops' = nops + 1
    /\ UNCHANGED <<pc, arg, text, res>>

\* value.serialize(&mut serializer) on the Serializer itself
SerializeRoot(v) ==
    /\ pc = "serializer" /\ nops < MaxOps
    /\ TopKind = "root" /\ MayTake(v)
    /\ Called("serialize", ser, [m \in Modes |-> Serialize(ser[m], v)], <<>>, FALSE)

SerializeElement(v) ==
    /\ pc = "serializer" /\ nops < MaxOps
    /\ TopKind = "array" /\ MayTake(v)
    /\ LET pre == [m \in Modes |-> element_begin(ser[m])]
       IN  Called("serialize_element", pre, [m \in Modes |-> Serialize(pre[m], v)], <<>>, FALSE)

ArrayEnd ==
    /\ pc = "serializer" /\ nops < MaxOps
    /\ TopKind = "array"
    /\ LET post == [m \in Modes |-> array_end(ser[m])]
       IN  Called("array_end", post, post, <<>>, FALSE)

SerializeKey(k) ==
    /\ pc = "serializer" /\ nops < MaxOps
    /\ TopKind = "compound"
    /\ LET post == [m \in Modes |-> serialize_key(ser[m], k)]
       IN  Called("serialize_key", post, post, <<>>, FALSE)

SerializeValue(v) ==
    /\ pc = "serializer" /\ nops < MaxOps
    /\ TopKind = "compound" /\ MayTake(v)
    /\ LET b == [m \in Modes |-> value_begin(ser[m])]
           name == IF b["compact"].arm = "field" THEN Top(ser["compact"]).key.val ELSE <<>>
       IN  Called("serialize_value", [m \in Modes |-> b[m].s],
                  [m \in Modes |-> value_serialize(b[m], v)], name,
                  b["compact"].arm \in {"B;", "I;", "L;"})

CompoundEnd ==
    /\ pc = "serializer" /\ nops < MaxOps
    /\ TopKind = "compound"
    /\ LET post == [m \in Modes |-> compound_end(ser[m])]
       IN  Called("compound_end", post, post, <<>>, FALSE)

SerNext ==
    \/ \E v \in Values : SerializeRoot(v)
    \/ \E v \in Values : SerializeElement(v)
    \/ ArrayEnd
    \/ \E k \in Keys : SerializeKey(k)
    \/ \E v \in Values : SerializeValue(v)
    \/ CompoundEnd

SerSpec == SerInit /\ [][SerNext]_vars


---------------------------------------------------------------------------
(* parser.rs: strings *)

ParseOk(rest, val, owned) ==
    [ok |-> TRUE, rest |-> rest, val |-> val, owned |-> owned, err |-> "none"]
ParseErr(kind) ==
    [ok |-> FALSE, rest |-> <<>>, val |-> <<>>, owned |-> FALSE, err |-> kind]

\* the length in bytes of the character whose first byte is b
LenUtf8(b) == IF b = "C3" THEN 2 ELSE 1

\* an escaped character that is not pushed to the owned buffer
escaped_char_dropped(st, c, after) ==
    [st EXCEPT !.skip = FALSE, !.start = after]

\* parse_escaped, `if skip`: the escaped character is pushed whatever it is
escaped_char(st, c, after) ==
    [st EXCEPT !.skip = FALSE, !.owned = @ \o c, !.start = after]

\* parse_escaped, `c == '\\'`: the run before the backslash is flushed
backslash(st, input, after) ==
    LET len == after - 1
    IN  [st EXCEPT !.owned = @ \o Slice(input, st.start, len), !.skip = TRUE]

\* parse_escaped, `c == surround`: borrowed when nothing was ever pushed
closing(st, input, after) ==
    LET len == after - 1
    IN  IF st.owned # <<>>
        THEN ParseOk(Slice(input, len, Len(input)),
                     IF len > st.start THEN st.owned \o Slice(input, st.start, len)
                     ELSE st.owned,
                     TRUE)
        ELSE ParseOk(Slice(input, len, Len(input)), Slice(input, 0, len), FALSE)

\* the loop of parse_escaped over input.chars(); pos is the offset of the next
\* character, that is input.len() - chars.as_str().len()
RECURSIVE escaped_loop(_, _, _, _)
escaped_loop(surround, input, pos, st) ==
    IF pos >= Len(input) THEN ParseErr("MapRes")
    ELSE LET after == pos + LenUtf8(input[pos + 1])
             c == Slice(input, pos, after)
         IN  IF st.skip THEN escaped_loop(surround, input, after, escaped_char(st, c, after))
             ELSE IF c = <<BS>>
             THEN escaped_loop(surround, input, after, backslash(st, input, after))
             ELSE IF c = <<surround>> THEN closing(st, input, after)
             ELSE escaped_loop(surround, input, after, st)

parse_escaped(surround, input) ==
    escaped_loop(surround, input, 0, [owned |-> <<>>, start |-> 0, skip |-> FALSE])

\* delimited(char(q), parse_escaped(q), char(q))
delimited(q, input) ==
    IF input = <<>> \/ Head(input) # q THEN ParseErr("Char")
    ELSE LET r == parse_escaped(q, Tail(input))
         IN  IF ~r.ok THEN r
             ELSE IF r.rest = <<>> \/ Head(r.rest) # q THEN ParseErr("Char")
             ELSE [r EXCEPT !.rest = Tail(@)]

AlphaNumeric ==
    DigitSet \cup {"a", "b", "d", "e", "f", "i", "l", "n", "s", "t", "y",
                   "A", "B", "D", "E", "F", "I", "L", "N", "S", "T", "Y"}
SimpleChars == AlphaNumeric \cup {"_", "-", ".", "+"}

\* the length of the longest prefix of s whose bytes are all in S
PrefixIn(s, S) == MinOf({k \in 0..Len(s) : k = Len(s) \/ s[k + 1] \notin S})

\* recognize(many1(alt((alphanumeric1, is_a("_-.+")))))
parse_simple_string(input) ==
    LET n == PrefixIn(input, SimpleChars)
    IN  IF n = 0 THEN ParseErr("Many1")
        ELSE ParseOk(Slice(input, n, Len(input)), Slice(input, 0, n), FALSE)

parse_str(input) ==
    LET r1 == delimited(DQ, input)
        r2 == delimited(SQ, input)
    IN  IF r1.ok THEN r1
        ELSE IF r2.ok THEN r2
        ELSE parse_simple_string(input)

TextChars == {<<"a">>, <<"n">>, <<DQ>>, <<SQ>>, <<BS>>, <<"C3", "A9">>}
\* the valid UTF-8 texts of at most MaxStr characters
Texts == {Concat(cs) : cs \in SeqsUpTo(TextChars, MaxStr)}

StrInit ==
    /\ ser = [m \in Modes |-> NewSerializer(m)]
    /\ opened = [m \in Modes |-> <<>>]
    /\ last = [op |-> "new", before |-> [m \in Modes |-> NewSerializer(m)],
               opened |-> [m \in Modes |-> <<>>], pre |-> [m \in Modes |-> <<>>],
               at |-> [m \in Modes |-> NewSerializer(m).indent]]
    /\ hist = [stripped |-> <<>>, content |-> <<>>, supplied |-> <<>>, typed |-> FALSE]
    /\ nops = 0
    /\ pc = "str"
    /\ arg \in Texts
    /\ text = <<>>
    /\ res = NoRes

\* Serializer::serialize_str on a fresh sink
CallSerializeStr ==
    /\ pc = "str"
    /\ text' = serialize_str(NewSerializer("compact"), arg).writer
    /\ pc' = "str_written"
    /\ UNCHANGED <<ser, opened, last, hist, nops, arg, res>>

\* parse_str on what serialize_str wrote
CallParseStr ==
    /\ pc = "str_written"
    /\ res' = parse_str(text)
    /\ pc' = "str_parsed"
    /\ UNCHANGED <<ser, opened, last, hist, nops, arg, text>>

\* parse_str on an arbitrary text
CallParseStrOn ==
    /\ pc = "str"
    /\ text' = arg
    /\ res' = parse_str(arg)
    /\ pc' = "text_parsed"
    /\ UNCHANGED <<ser, opened, last, hist, nops, arg>>

\* parse_escaped(q) on an arbitrary text; `text` keeps q
CallParseEscaped(q) ==
    /\ pc = "str"
    /\ text' = <<q>>
    /\ res' = parse_escaped(q, arg)
    /\ pc' = "escaped"
    /\ UNCHANGED <<ser, opened, last, hist, nops, arg>>

StrNext ==
    \/ CallSerializeStr
    \/ CallParseStr
    \/ CallParseStrOn
    \/ \E q \in {DQ, SQ} : CallParseEscaped(q)

StrSpec == StrInit /\ [][StrNext]_vars

\* C4: parse_str of what serialize_str wrote for s succeeds with an empty
\* remainder and the value s; the result is borrowed when s holds neither `"`
\* nor `\`, and owned when it holds one of them.
C4_StrRoundTrip ==
    pc = "str_parsed" =>
        /\ res.ok
        /\ res.rest = <<>>
        /\ res.val = arg
        /\ res.owned <=> (\E i \in 1..Len(arg) : arg[i] \in {DQ, BS})

\* C4 witness: a string holding a quote, a backslash and a two-byte character
\* went through serialize_str and parse_str and came back owned.
C4_Witness ==
    /\ pc = "str_parsed"
    /\ res.ok /\ res.owned
    /\ \E i, j, k \in 1..Len(arg) : arg[i] = DQ /\ arg[j] = BS /\ arg[k] = "C3"

\* the first quote q of the input that no backslash escapes, 0 when none: a byte
\* is escaped when an odd number of backslashes stand in a row right before it
ClosingQuote(input, q) ==
    LET c == {i \in 1..Len(input) : input[i] = q /\ BsRun(input, i) % 2 = 0}
    IN  IF c = {} THEN 0 ELSE MinOf(c)
\* s with every escaping backslash removed
Unescaped(s) ==
    LET Kept(i) == ~(s[i] = BS /\ BsRun(s, i) % 2 = 0)
        kept == SelectSeq([i \in 1..Len(s) |-> i], Kept)
    IN  [j \in 1..Len(kept) |-> s[kept[j]]]

\* C9: parse_escaped(q) scans to the first q not escaped by a backslash and
\* returns the text before it with every pair backslash+X replaced by X, the
\* remainder starting at that q; with no such q before the end of the input it
\* fails and returns no value.
C9_ParseEscaped ==
    pc = "escaped" =>
        LET q == text[1]
            n == ClosingQuote(arg, q)
        IN  IF n = 0
            THEN ~res.ok /\ res.val = <<>>
            ELSE /\ res.ok
                 /\ res.val = Unescaped(SubSeq(arg, 1, n - 1))
                 /\ res.rest = SubSeq(arg, n, Len(arg))

\* C9 witness: parse_escaped succeeded on an input in which a backslash escapes
\* the quote character itself before the closing quote.
C9_Witness ==
    /\ pc = "escaped"
    /\ res.ok
    /\ Len(arg) >= 3 /\ arg[1] = BS /\ arg[2] = text[1]
    /\ Len(res.rest) >= 1 /\ res.val # <<>>

---------------------------------------------------------------------------
(* parser.rs: integers *)

\* a recognizer's answer: how many bytes it consumed, or that it failed
Took(n) == [ok |-> TRUE, n |-> n, cut |-> FALSE]
Refused == [ok |-> FALSE, n |-> 0, cut |-> FALSE]
\* nom::Err::Failure, which alt and opt do not recover from
Failed == [ok |-> FALSE, n |-> 0, cut |-> TRUE]

\* digit0
digit0(input) == PrefixIn(input, DigitSet)

\* a decimal body that takes every leading digit, zeros included
decimal_any_digits(input) ==
    LET sign == IF input # <<>> /\ Head(input) \in {"+", "-"} THEN 1 ELSE 0
        n == digit0(Slice(input, sign, Len(input)))
    IN  IF n = 0 THEN Refused ELSE Took(sign + n)

\* decimal: an optional sign, then a nonzero digit and digit0, or else "0"
decimal(input) ==
    LET sign == IF input # <<>> /\ Head(input) \in {"+", "-"} THEN 1 ELSE 0
        body == Slice(input, sign, Len(input))
    IN  IF body # <<>> /\ Head(body) \in (DigitSet \ {"0"})
        THEN Took(sign + 1 + digit0(Tail(body)))
        ELSE IF body # <<>> /\ Head(body) = "0" THEN Took(sign + 1)
        ELSE Refused

\* <iN as FromStr>::from_str: the digits accumulated most significant first,
\* each step checked against the range of the type
RECURSIVE accumulate(_, _, _, _)
accumulate(w, neg, digits, acc) ==
    IF digits = <<>> THEN [ok |-> TRUE, val |-> [neg |-> neg /\ acc # ZeroMag, mag |-> acc]]
    ELSE IF Head(digits) \notin DigitSet THEN [ok |-> FALSE, val |-> FromInt(0)]
    ELSE LET r == MagMul10Add(acc, 4, [m |-> <<>>, c |-> DigitVal(Head(digits))])
             fits == r.c = 0 /\ MagLeq(r.m, IF neg THEN MinMag(w) ELSE MaxMag(w))
         IN  IF fits THEN accumulate(w, neg, Tail(digits), r.m)
             ELSE [ok |-> FALSE, val |-> FromInt(0)]

from_str(w, s) ==
    LET signed == s # <<>> /\ Head(s) \in {"+", "-"}
        digits == IF signed THEN Tail(s) ELSE s
    IN  IF digits = <<>> THEN [ok |-> FALSE, val |-> FromInt(0)]
        ELSE accumulate(w, signed /\ Head(s) = "-", digits, ZeroMag)

\* the suffix letters parse_iN asks for after the decimal body
SuffixChars(w) ==
    CASE w = 8  -> {"b", "B"}
      [] w = 16 -> {"s", "S"}
      [] w = 32 -> {}
      [] w = 64 -> {"l", "L"}

\* an integer parser that does not look for its suffix
parse_int_unsuffixed(w, input) ==
    LET d == decimal(input)
    IN  IF ~d.ok THEN ParseErr("decimal")
        ELSE LET v == from_str(w, Slice(input, 0, d.n))
             IN  IF v.ok THEN ParseOk(Slice(input, d.n, Len(input)), v.val, FALSE)
                 ELSE ParseErr("MapRes")

\* parse_i8, parse_i16, parse_i32, parse_i64: map_res(decimal [suffix], str::parse)
parse_int(w, input) ==
    LET d == decimal(input)
        n == IF w = 32 THEN d.n ELSE d.n + 1
    IN  IF ~d.ok THEN ParseErr("decimal")
        ELSE IF w # 32 /\ (Len(input) = d.n \/ input[d.n + 1] \notin SuffixChars(w))
        THEN ParseErr("Char")
        ELSE LET v == from_str(w, Slice(input, 0, d.n))
             IN  IF v.ok THEN ParseOk(Slice(input, n, Len(input)), v.val, FALSE)
                 ELSE ParseErr("MapRes")

Widths == {8, 16, 32, 64}

Neg(mag) == [neg |-> TRUE, mag |-> mag]
Pos(mag) == [neg |-> FALSE, mag |-> mag]

\* the signed integers of w bits the round trip is run on: every i8, and for the
\* wider types the extremes, their neighbours and the powers of ten
IntSamples(w) ==
    CASE w = 8  -> {FromInt(n) : n \in (0 - 128)..127}
      [] w = 16 -> {FromInt(n) : n \in
                        ((0 - 32768)..(0 - 32760)) \cup ((0 - 130)..130) \cup (32760..32767)
                        \cup {1000, 0 - 1000, 9999, 10000, 0 - 9999, 0 - 10000}}
      [] w = 32 -> {FromInt(n) : n \in
                        ((0 - 12)..12) \cup {99, 100, 0 - 100, 65535, 65536, 0 - 65536,
                                             1000000000, 0 - 1000000000, 999999999,
                                             2147483646, 2147483647, 0 - 2147483647}}
                    \cup {Neg(MinMag(32))}
      [] w = 64 -> {FromInt(n) : n \in ((0 - 12)..12) \cup {2147483647, 0 - 2147483647}}
                    \cup {Pos(MaxMag(64)), Neg(MaxMag(64)), Neg(MinMag(64)),
                          Pos(<<32767, 65535, 65535, 65534>>),
                          Pos(<<0, 1, 0, 0>>), Neg(<<0, 1, 0, 0>>),
                          Pos(<<1, 0, 0, 0>>), Neg(<<1, 0, 0, 0>>),
                          Pos(<<3552, 46771, 42852, 0>>), Neg(<<3552, 46771, 42852, 0>>),
                          Pos(<<3552, 46771, 42851, 65535>>)}

IntChars == {"+", "-", "0", "1", "7", "b", "B", "s", "S", "l", "L"}
IntTexts == SeqsUpTo(IntChars, MaxIntText)

IntInit ==
    /\ ser = [m \in Modes |-> NewSerializer(m)]
    /\ opened = [m \in Modes |-> <<>>]
    /\ last = [op |-> "new", before |-> [m \in Modes |-> NewSerializer(m)],
               opened |-> [m \in Modes |-> <<>>], pre |-> [m \in Modes |-> <<>>],
               at |-> [m \in Modes |-> NewSerializer(m).indent]]
    /\ hist = [stripped |-> <<>>, content |-> <<>>, supplied |-> <<>>, typed |-> FALSE]
    /\ nops = 0
    /\ res = NoRes
    /\ \/ /\ pc = "int"
          /\ \E w \in Widths : \E x \in IntSamples(w) : arg = [w |-> w, x |-> x]
          /\ text = <<>>
       \/ /\ pc = "int_text"
          /\ \E w \in Widths : arg = [w |-> w, x |-> FromInt(0)]
          /\ text \in IntTexts

\* serialize_i8, serialize_i16, serialize_i32, serialize_i64 on a fresh sink
CallSerializeInt ==
    /\ pc = "int"
    /\ text' = serialize_int(NewSerializer("compact"), arg.w, arg.x).writer
    /\ pc' = "int_written"
    /\ UNCHANGED <<ser, opened, last, hist, nops, arg, res>>

\* parse_iN on what serialize_iN wrote
CallParseInt ==
    /\ pc = "int_written"
    /\ res' = parse_int(arg.w, text)
    /\ pc' = "int_parsed"
    /\ UNCHANGED <<ser, opened, last, hist, nops, arg, text>>

\* parse_iN on an arbitrary text
CallParseIntOn ==
    /\ pc = "int_text"
    /\ res' = parse_int(arg.w, text)
    /\ pc' = "int_text_parsed"
    /\ UNCHANGED <<ser, opened, last, hist, nops, arg, text>>

IntNext ==
    \/ CallSerializeInt
    \/ CallParseInt
    \/ CallParseIntOn

IntSpec == IntInit /\ [][IntNext]_vars

\* an optional sign, then the single digit 0 or a nonzero digit and digits
IsDecimalBody(s) ==
    LET d == IF s # <<>> /\ Head(s) \in {"+", "-"} THEN Tail(s) ELSE s
    IN  /\ d # <<>>
        /\ \A i \in 1..Len(d) : d[i] \in DigitSet
        /\ d[1] = "0" => Len(d) = 1
\* the length of the longest prefix that is a decimal body, 0 when none is
LongestBody(s) ==
    MaxOf({0} \cup {k \in 1..Len(s) : IsDecimalBody(SubSeq(s, 1, k))})

\* C5: for N in {8,16,32,64} and every signed N-bit x, serialize_iN(x) writes
\* the decimal digits of x followed by exactly the suffix of N, and parse_iN
\* of that text succeeds with an empty remainder and the value x.
C5_IntRoundTrip ==
    pc = "int_parsed" =>
        LET body == SubSeq(text, 1, Len(text) - Len(IntSuffix(arg.w)))
        IN  /\ InRange(arg.w, arg.x)
            /\ text = body \o IntSuffix(arg.w)
            /\ IsDecimalBody(body)
            /\ (body[1] = "-") <=> arg.x.neg
            /\ res.ok
            /\ res.rest = <<>>
            /\ res.val = arg.x

\* C5 witness: i64::MIN went through serialize_i64 and parse_i64.
C5_Witness ==
    /\ pc = "int_parsed"
    /\ arg.w = 64 /\ arg.x = Neg(MinMag(64))
    /\ Len(text) = 21
    /\ res.ok

\* C7: each integer parser consumes exactly the decimal body and its own
\* suffix: parse_i32 takes the longest prefix that is a decimal body and
\* nothing more (`007` gives 0 and leaves `07`; a type letter after the body
\* stays in the remainder); parse_i8, parse_i16 and parse_i64 succeed only when
\* the body is immediately followed by b/B, s/S, l/L respectively.
C7_IntConsumesBodyAndSuffix ==
    pc = "int_text_parsed" =>
        LET n == LongestBody(text)
            suffixed == n < Len(text) /\ text[n + 1] \in SuffixChars(arg.w)
            inRange == from_str(arg.w, SubSeq(text, 1, n)).ok
        IN  /\ arg.w = 32 =>
                /\ res.ok <=> (n > 0 /\ inRange)
                /\ res.ok => res.rest = SubSeq(text, n + 1, Len(text))
                /\ text = <<"0", "0", "7">> =>
                        res.ok /\ res.val = FromInt(0) /\ res.rest = <<"0", "7">>
            /\ arg.w # 32 =>
                /\ res.ok <=> (n > 0 /\ suffixed /\ inRange)
                /\ res.ok => res.rest = SubSeq(text, n + 2, Len(text))
            /\ res.ok => res.val = from_str(arg.w, SubSeq(text, 1, n)).val

\* C7 witness: parse_i32 stopped before a type letter, leaving it unconsumed.
C7_Witness ==
    /\ pc = "int_text_parsed"
    /\ arg.w = 32
    /\ text = <<"-", "1", "7", "b">>
    /\ res.ok /\ res.rest = <<"b">> /\ res.val = FromInt(0 - 17)

---------------------------------------------------------------------------
(* parser.rs: floating point *)

Lower(c) ==
    CASE c = "A" -> "a" [] c = "D" -> "d" [] c = "E" -> "e" [] c = "F" -> "f"
      [] c = "I" -> "i" [] c = "N" -> "n" [] c = "T" -> "t" [] c = "Y" -> "y"
      [] OTHER -> c
Upper(c) ==
    CASE c = "a" -> "A" [] c = "d" -> "D" [] c = "e" -> "E" [] c = "f" -> "F"
      [] c = "i" -> "I" [] c = "n" -> "N" [] c = "t" -> "T" [] c = "y" -> "Y"
      [] OTHER -> c

\* tag_no_case(t)
tag_no_case(t, input) ==
    IF Len(input) >= Len(t) /\ \A i \in 1..Len(t) : Lower(input[i]) = Lower(t[i])
    THEN Took(Len(t)) ELSE Refused

\* opt(alt((char('+'), char('-')))): 1 when a sign stands first
opt_sign(input) == IF input # <<>> /\ Head(input) \in {"+", "-"} THEN 1 ELSE 0

\* digit1
digit1(input) ==
    LET n == PrefixIn(input, DigitSet) IN IF n = 0 THEN Refused ELSE Took(n)

\* exp: e/E, an optional sign, then cut(digit1)
exp(input) ==
    IF input = <<>> \/ Head(input) \notin {"e", "E"} THEN Refused
    ELSE LET s == opt_sign(Tail(input))
             d == digit1(Slice(input, 1 + s, Len(input)))
         IN  IF d.ok THEN Took(1 + s + d.n) ELSE Failed

\* float_num: an optional sign, then digits "." digits? or "." digits
float_num(input) ==
    LET s == opt_sign(input)
        body == Slice(input, s, Len(input))
        d == digit1(body)
    IN  IF d.ok /\ Len(body) > d.n /\ body[d.n + 1] = "."
        THEN Took(s + d.n + 1 + PrefixIn(Slice(body, d.n + 1, Len(body)), DigitSet))
        ELSE IF body # <<>> /\ Head(body) = "."
        THEN LET f == digit1(Tail(body))
             IN  IF f.ok THEN Took(s + 1 + f.n) ELSE Refused
        ELSE Refused

\* the last alternative of float: sign? digit1 exp, or else float_num exp?
float_number(input) ==
    LET s == opt_sign(input)
        d == digit1(Slice(input, s, Len(input)))
        e == IF d.ok THEN exp(Slice(input, s + d.n, Len(input))) ELSE Refused
        n == float_num(input)
        ne == IF n.ok THEN exp(Slice(input, n.n, Len(input))) ELSE Refused
    IN  IF d.ok /\ e.ok THEN Took(s + d.n + e.n)
        ELSE IF d.ok /\ e.cut THEN Failed
        ELSE IF ~n.ok THEN Refused
        ELSE IF ne.ok THEN Took(n.n + ne.n)
        ELSE IF ne.cut THEN Failed
        ELSE n

INF == <<"i", "n", "f">>
INFINITY == <<"i", "n", "f", "i", "n", "i", "t", "y">>
NAN == <<"n", "a", "n">>

\* the tags of float, in the order alt tries them
FloatTags == <<INF, INFINITY, NAN, <<"-">> \o INF, <<"-">> \o INFINITY>>

\* float: alt over the tags in order, then the numeric forms
float(input) ==
    LET hits == {i \in 1..Len(FloatTags) : tag_no_case(FloatTags[i], input).ok}
    IN  IF hits # {} THEN tag_no_case(FloatTags[MinOf(hits)], input)
        ELSE float_number(input)

\* <f32 as FromStr>::from_str and <f64 as FromStr>::from_str on a text that
\* float recognized: the special values in any case, otherwise a finite number
float_from_str(s) ==
    LET low == [i \in 1..Len(s) |-> Lower(s[i])]
        unsigned == IF low # <<>> /\ Head(low) \in {"+", "-"} THEN Tail(low) ELSE low
        minus == low # <<>> /\ Head(low) = "-"
    IN  IF unsigned \in {INF, INFINITY} THEN <<IF minus THEN "-inf" ELSE "inf">>
        ELSE IF unsigned = NAN THEN <<"nan">>
        ELSE <<"finite">> \o s

\* parse_f32 (the suffix f/F required) and parse_f64 (the suffix d/D optional)
parse_float(w, input) ==
    LET r == float(input)
        rest == Slice(input, r.n, Len(input))
        suffix == IF w = 32 THEN {"f", "F"} ELSE {"d", "D"}
        has == rest # <<>> /\ Head(rest) \in suffix
    IN  IF ~r.ok THEN ParseErr(IF r.cut THEN "Failure" ELSE "float")
        ELSE IF w = 32 /\ ~has THEN ParseErr("Char")
        ELSE ParseOk(IF has THEN Tail(rest) ELSE rest,
                     float_from_str(Slice(input, 0, r.n)), FALSE)

\* a token in every mix of upper and lower case
CaseMixes(tok) ==
    {[i \in 1..Len(tok) |-> IF i \in up THEN Upper(tok[i]) ELSE tok[i]] :
        up \in SUBSET (1..Len(tok))}
SpecialTokens == UNION {CaseMixes(FloatTags[i]) : i \in 1..Len(FloatTags)}
NumberTexts ==
    {<<"1", ".", "5">>, <<"1", ".">>, <<".", "5">>, <<"-", "1", "e", "5">>,
     <<"1", "e">>, <<"1", ".", "5", "e", "+">>, <<"+", "2", ".", "0", "E", "-", "1">>,
     <<"1">>, <<".">>, <<"-">>, <<"e", "1">>, <<"n", "a">>, <<"-", "i", "n">>}
FloatSuffixes == {<<>>, <<"f">>, <<"F">>, <<"d">>, <<"D">>}

FloatInit ==
    /\ ser = [m \in Modes |-> NewSerializer(m)]
    /\ opened = [m \in Modes |-> <<>>]
    /\ last = [op |-> "new", before |-> [m \in Modes |-> NewSerializer(m)],
               opened |-> [m \in Modes |-> <<>>], pre |-> [m \in Modes |-> <<>>],
               at |-> [m \in Modes |-> NewSerializer(m).indent]]
    /\ hist = [stripped |-> <<>>, content |-> <<>>, supplied |-> <<>>, typed |-> FALSE]
    /\ nops = 0
    /\ res = NoRes
    /\ pc = "float"
    /\ \E tok \in SpecialTokens \cup NumberTexts : \E suf \in FloatSuffixes :
            /\ arg = [tok |-> tok, suffix |-> suf]
            /\ text = tok \o suf

CallParseF32 ==
    /\ pc = "float"
    /\ res' = parse_float(32, text)
    /\ pc' = "f32_parsed"
    /\ UNCHANGED <<ser, opened, last, hist, nops, arg, text>>

CallParseF64 ==
    /\ pc = "float"
    /\ res' = parse_float(64, text)
    /\ pc' = "f64_parsed"
    /\ UNCHANGED <<ser, opened, last, hist, nops, arg, text>>

FloatNext ==
    \/ CallParseF32
    \/ CallParseF64

FloatSpec == FloatInit /\ [][FloatNext]_vars

\* C6: each of inf, infinity, nan, -inf, -infinity, in any mix of upper and
\* lower case, is one complete literal: parse_f64 of the token alone succeeds
\* with an empty remainder, and parse_f32 of the token followed by f or F
\* succeeds and consumes the whole text.
C6_SpecialTokensAreWholeLiterals ==
    /\ (pc = "f64_parsed" /\ arg.tok \in SpecialTokens /\ arg.suffix = <<>>) =>
            res.ok /\ res.rest = <<>>
    /\ (pc = "f32_parsed" /\ arg.tok \in SpecialTokens /\ arg.suffix \in {<<"f">>, <<"F">>}) =>
            res.ok /\ res.rest = <<>>

---------------------------------------------------------------------------
(* Serializer::serialize_bytes applied once to a byte sequence *)

ByteVals == {0, 1, 2, 3, 10, 255}
ByteSeqs == SeqsUpTo(ByteVals, MaxBytes)

BytesInit ==
    /\ ser = [m \in Modes |-> NewSerializer(m)]
    /\ opened = [m \in Modes |-> <<>>]
    /\ last = [op |-> "new", before |-> [m \in Modes |-> NewSerializer(m)],
               opened |-> [m \in Modes |-> <<>>], pre |-> [m \in Modes |-> <<>>],
               at |-> [m \in Modes |-> NewSerializer(m).indent]]
    /\ hist = [stripped |-> <<>>, content |-> <<>>, supplied |-> <<>>, typed |-> FALSE]
    /\ nops = 0
    /\ pc = "bytes"
    /\ arg \in ByteSeqs
    /\ text = <<>>
    /\ res = NoRes

CallSerializeBytes ==
    /\ pc = "bytes"
    /\ ser' = [m \in Modes |-> serialize_bytes(ser[m], arg)]
    /\ pc' = "bytes_done"
    /\ UNCHANGED <<opened, last, hist, nops, arg, text, res>>

BytesNext == CallSerializeBytes

BytesSpec == BytesInit /\ [][BytesNext]_vars

RECURSIVE JoinBytes(_)
JoinBytes(v) ==
    IF v = <<>> THEN <<>>
    ELSE Itoa(FromInt(Head(v))) \o <<"b">>
            \o (IF Tail(v) = <<>> THEN <<>> ELSE <<",">> \o JoinBytes(Tail(v)))

\* C1: serialize_bytes writes a typed byte array: `[`, the prefix `B;`, each
\* byte as decimal digits followed by `b`, separated by `,`, then `]`; in
\* compact mode [1,2,3] gives `[B;1b,2b,3b]` and the empty sequence `[B;]`.
C1_BytesAreTypedByteArray ==
    pc = "bytes_done" =>
        /\ ser["compact"].result = "ok"
        /\ ser["compact"].writer = <<"[", "B", ";">> \o JoinBytes(arg) \o <<"]">>

---------------------------------------------------------------------------
(* Claims about the compound and sequence emitters, under SerSpec *)

ValueBeforeKey == "serialize_value called before serialize_key"

\* C2: serialize_value on a CompoundSerializer with no pending key returns the
\* error "serialize_value called before serialize_key", writes nothing to the
\* sink, and leaves has_first, is_compound and the indentation unchanged.
C2_ValueWithoutKeyFails ==
    \A m \in Modes :
        (last.op = "serialize_value" /\ ~Top(last.before[m]).key.some) =>
            /\ ser[m].result = ValueBeforeKey
            /\ ser[m].writer = last.before[m].writer
            /\ ser[m].indent = last.before[m].indent
            /\ Len(ser[m].stack) = Len(last.before[m].stack)
            /\ Top(ser[m]).has_first = Top(last.before[m]).has_first
            /\ Top(ser[m]).is_compound = Top(last.before[m]).is_compound
            /\ ~Top(ser[m]).key.some

\* C2 witness: serialize_value was called on a compound whose previous key had
\* already been consumed by a value, and it returned the error.
C2_Witness ==
    /\ last.op = "serialize_value"
    /\ \A m \in Modes :
        /\ ~Top(last.before[m]).key.some
        /\ Top(last.before[m]).has_first
        /\ Top(last.before[m]).is_compound
        /\ ser[m].result = ValueBeforeKey

\* C3: a pending key is consumed by exactly one value: end called while a key
\* is pending returns an error instead of closing the compound, and
\* serialize_key called while a key is pending does not silently discard the
\* earlier key (it fails, or the earlier key is still the pending one).
C3_PendingKeyConsumedOnce ==
    \A m \in Modes :
        /\ (last.op = "compound_end" /\ Top(last.before[m]).key.some) =>
                /\ ser[m].result # "ok"
                /\ Len(ser[m].stack) = Len(last.before[m].stack)
        /\ (last.op = "serialize_key" /\ Top(last.before[m]).key.some) =>
                \/ ser[m].result # "ok"
                \/ Top(ser[m]).key = Top(last.before[m]).key

\* C8: as long as no value went under a sentinel key, pretty and compact
\* output differ only in whitespace the emitter inserted: the pretty output
\* without the newlines and spaces outside string literals is the compact output
\* byte for byte; every run of inserted whitespace is one space after `:` or a
\* newline followed by whole 4-space units; the compact output holds no
\* whitespace outside string literals; and the keys and scalar texts appear in
\* the order in which they were supplied.
C8_PrettyDiffersOnlyInWhitespace ==
    ~hist.typed =>
        /\ hist.stripped = ser["compact"].writer
        /\ InsertedShapeOk(Delta(last.before["pretty"], ser["pretty"]))
        /\ StripInserted(Delta(last.before["compact"], ser["compact"]))
                = Delta(last.before["compact"], ser["compact"])
        /\ hist.content = hist.supplied

\* C8 witness: a second entry was written into a compound nested in another
\* composite, so that separators, nested indentation and `: ` have all been
\* emitted and the two outputs differ.
C8_Witness ==
    /\ last.op = "serialize_value"
    /\ ~hist.typed
    /\ Depth >= 2
    /\ \A m \in Modes :
        /\ Top(last.before[m]).key.some
        /\ Top(last.before[m]).has_first
        /\ Top(last.before[m]).is_compound
        /\ ser[m].result = "ok"
    /\ ser["pretty"].writer # ser["compact"].writer

NewlineIndent(d) == <<NL>> \o Repeat(IndentUnit, d)

\* C10: in pretty mode a sequence created at depth d writes `[` and the prefix,
\* then before every element exactly one newline and 4*(d+1) spaces, with a
\* single `,` between successive elements, then one newline, 4*d spaces and `]`;
\* with no element it writes `[`, the prefix and `]` with no whitespace, in
\* both modes.
C10_ArrayLayout ==
    LET i == Len(last.before["pretty"].stack)
        f == last.before["pretty"].stack[i]
        d == last.opened["pretty"][i].val
    IN  /\ last.op = "serialize_element" =>
                last.pre["pretty"] =
                    (IF f.first THEN <<",">> ELSE <<"[">> \o f.prefix) \o NewlineIndent(d + 1)
        /\ (last.op = "array_end" /\ f.first) =>
                Delta(last.before["pretty"], ser["pretty"]) = NewlineIndent(d) \o <<"]">>
        /\ (last.op = "array_end" /\ ~f.first) =>
                \A m \in Modes :
                    Delta(last.before[m], ser[m]) = <<"[">> \o f.prefix \o <<"]">>

\* C11: over well-nested operations of the sequence and compound emitters, with
\* no value sent under a sentinel key, pop_indent never runs on a depth of 0;
\* when the end of a composite returns successfully the depth is the depth at
\* which the composite was created (for a byte sequence, emitted within one
\* call, the depth at which that call handed over the value); and a depth of
\* None stays None, as a depth of Some stays Some.
C11_IndentBalanced ==
    ~hist.typed =>
        \A m \in Modes :
            /\ ~ser[m].floored
            /\ (last.op \in {"array_end", "compound_end"} /\ ser[m].result = "ok") =>
                    ser[m].indent = last.opened[m][Len(last.before[m].stack)]
            /\ (last.op \in {"serialize", "serialize_element", "serialize_value"}
                    /\ ser[m].result = "ok"
                    /\ Len(ser[m].stack) = Len(last.before[m].stack)) =>
                    ser[m].indent = last.at[m]
            /\ ser[m].indent.some <=> (m = "pretty")

\* C11 witness: a compound that wrote a field inside a sequence was ended,
\* pop_indent bringing the depth from 2 back to the 1 it was created at.
C11_Witness ==
    /\ last.op = "compound_end"
    /\ ~hist.typed
    /\ Len(last.before["pretty"].stack) = 2
    /\ Top(last.before["pretty"]).is_compound
    /\ last.before["pretty"].stack[1].kind = "array"
    /\ last.before["pretty"].indent = Some(2)
    /\ ser["pretty"].indent = Some(1)
    /\ ser["pretty"].result = "ok"
    /\ ser["compact"].indent = None

=============================================================================
